---------------------------- MODULE Spec2Model ----------------------------
(***************************************************************************)
(* A model of usfm2dict: UsfmTokenizer.tokenize / _tokenize_line,          *)
(* UsfmParser.parse, UsfmParserState, parse_usfm_file and main             *)
(* (src/usfm2dict.py).                                                     *)
(*                                                                         *)
(* A Python str is a sequence of one-character strings.  Offsets into a    *)
(* line (pos, match.start(), match.end(), column_number) are 0-based as in *)
(* the source; At(s, k) is s[k].  None and "" are both the empty sequence: *)
(* the source tests token.data and token.text only for truthiness, and the *)
(* tokenizer never stores an empty marker, data or text.                   *)
(***************************************************************************)
EXTENDS Integers, Sequences, FiniteSets, TLC

VARIABLES
    text,                \* the argument of parse
    pc,                  \* "idle", "tokenize", "drive", "clean", "done" (returned), "raised",
                         \* "exit" (main is over)
    lines,               \* tokenize: text.replace('\r\n', '\n').split('\n')
    line_number,         \* tokenize: 1-based number of the line being tokenized
    pos,                 \* _tokenize_line: scan position in the current line
    tokens,              \* the token list
    index,               \* state.index / i of the driver loop (0-based; -1 before the loop)
    verses,              \* the result dict: key -> value
    current_book,
    current_chapter,
    current_verse,
    current_verse_text,
    verse_ref,           \* state.verse_ref
    stack,               \* state._stack
    tags,                \* stylesheet._tags
    file_paths,          \* main: the expanded list of paths
    file_number,         \* main: how many paths the for loop has been through
    all_verses,          \* main: the merged dict
    earlier              \* history: the texts of the calls of parse that have ended

vars == <<text, pc, lines, line_number, pos, tokens, index, verses, current_book,
          current_chapter, current_verse, current_verse_text, verse_ref, stack, tags,
          file_paths, file_number, all_verses, earlier>>

\* the variables of main, which parse leaves alone
main_locals == <<file_paths, file_number, all_verses>>

-----------------------------------------------------------------------------
(* Python str primitives *)

None == <<>>

\* s[k], 0-based
At(s, k) == s[k + 1]

\* s[a:b] for 0 <= a, b
Slice(s, a, b) ==
    LET hi == IF b > Len(s) THEN Len(s) ELSE b
    IN  IF a >= hi THEN <<>> ELSE SubSeq(s, a + 1, hi)

\* str.isspace / regex \s for one character
IsSpace(c) == c \in {" ", "\n", "\r", "\t"}

\* str.isdecimal for one character: the characters int() accepts as digits
IsDecimal(c) == c \in {"0", "1", "2", "3", "4", "5", "6", "7", "8", "9"}

\* str.isdigit for one character: the decimals and the digits that are not
\* decimals, such as SUPERSCRIPT TWO
IsDigitChar(c) == IsDecimal(c) \/ c \in {"²"}

\* str.isdigit
IsDigit(s) == s # <<>> /\ \A k \in 1..Len(s) : IsDigitChar(s[k])

RECURSIVE LStrip(_)
LStrip(s) == IF s # <<>> /\ IsSpace(Head(s)) THEN LStrip(Tail(s)) ELSE s

RECURSIVE RStrip(_)
RStrip(s) ==
    IF s # <<>> /\ IsSpace(s[Len(s)]) THEN RStrip(SubSeq(s, 1, Len(s) - 1)) ELSE s

\* str.strip()
Strip(s) == RStrip(LStrip(s))

\* str.startswith
StartsWith(s, prefix) ==
    Len(prefix) <= Len(s) /\ SubSeq(s, 1, Len(prefix)) = prefix

\* str.endswith
EndsWith(s, suffix) ==
    Len(suffix) <= Len(s) /\ SubSeq(s, Len(s) - Len(suffix) + 1, Len(s)) = suffix

\* text.replace('\r\n', '\n')
RECURSIVE ReplaceCRLF(_)
ReplaceCRLF(s) ==
    IF s = <<>> THEN <<>>
    ELSE IF Len(s) >= 2 /\ s[1] = "\r" /\ s[2] = "\n"
         THEN <<"\n">> \o ReplaceCRLF(SubSeq(s, 3, Len(s)))
         ELSE <<Head(s)>> \o ReplaceCRLF(Tail(s))

\* s.split('\n'): always at least one piece
RECURSIVE SplitLines(_)
SplitLines(s) ==
    IF \A k \in 1..Len(s) : s[k] # "\n" THEN <<s>>
    ELSE LET k == CHOOSE j \in 1..Len(s) : s[j] = "\n" /\ \A h \in 1..(j - 1) : s[h] # "\n"
         IN  <<SubSeq(s, 1, k - 1)>> \o SplitLines(SubSeq(s, k + 1, Len(s)))

\* re.sub(r'\s+', ' ', s)
RECURSIVE CollapseSpace(_)
CollapseSpace(s) ==
    IF s = <<>> THEN <<>>
    ELSE IF IsSpace(Head(s)) THEN <<" ">> \o CollapseSpace(LStrip(s))
         ELSE <<Head(s)>> \o CollapseSpace(Tail(s))

-----------------------------------------------------------------------------
(* UsfmTokenizer *)

\* the offset of the first character at or after k that [^\s\\] does not match
RECURSIVE RunEnd(_, _)
RunEnd(line, k) ==
    IF k < Len(line) /\ ~IsSpace(At(line, k)) /\ At(line, k) # "\\"
    THEN RunEnd(line, k + 1) ELSE k

\* the offset of the first character at or after k that \s does not match
RECURSIVE SpaceEnd(_, _)
SpaceEnd(line, k) ==
    IF k < Len(line) /\ IsSpace(At(line, k)) THEN SpaceEnd(line, k + 1) ELSE k

NoMatch == [found |-> FALSE, start |-> 0, end |-> 0, group1 |-> None, group3 |-> None]

\* _token_regex = \\([^\s\\]+)(\s+|$)|\\([*]) tried at offset s.  The first
\* branch needs the whole run after the backslash to be followed by white
\* space or the end of the line (a shorter run is followed by a run
\* character); the second branch is a backslash and a star.
TokenRegexAt(line, s) ==
    IF s >= Len(line) \/ At(line, s) # "\\" THEN NoMatch
    ELSE LET r == RunEnd(line, s + 1)
         IN  IF r > s + 1 /\ (r = Len(line) \/ IsSpace(At(line, r)))
             THEN [found |-> TRUE, start |-> s, end |-> SpaceEnd(line, r),
                   group1 |-> Slice(line, s + 1, r), group3 |-> None]
             ELSE IF s + 1 < Len(line) /\ At(line, s + 1) = "*"
             THEN [found |-> TRUE, start |-> s, end |-> s + 2,
                   group1 |-> None, group3 |-> <<"*">>]
             ELSE NoMatch

\* self._token_regex.search(line, pos): the leftmost match at or after pos
RECURSIVE TokenRegexSearch(_, _)
TokenRegexSearch(line, p) ==
    IF p >= Len(line) THEN NoMatch
    ELSE IF TokenRegexAt(line, p).found THEN TokenRegexAt(line, p)
    ELSE TokenRegexSearch(line, p + 1)

\* the offset of the first character at or after k that \S does not match
RECURSIVE NonSpaceEnd(_, _)
NonSpaceEnd(rest, k) ==
    IF k < Len(rest) /\ ~IsSpace(At(rest, k)) THEN NonSpaceEnd(rest, k + 1) ELSE k

\* regex.search(r'\S+', rest): [found, group0, end], end relative to rest
DataSearch(rest) ==
    LET a == SpaceEnd(rest, 0)
    IN  IF a >= Len(rest) THEN [found |-> FALSE, group0 |-> None, end |-> 0]
        ELSE [found |-> TRUE, group0 |-> Slice(rest, a, NonSpaceEnd(rest, a)),
              end |-> NonSpaceEnd(rest, a)]

\* the suffix * tested before the first letter
MarkerTokenTypeEndFirst(marker) ==
    IF marker = <<"i", "d">> THEN "BOOK"
    ELSE IF marker = <<"c">> THEN "CHAPTER"
    ELSE IF marker = <<"v">> THEN "VERSE"
    ELSE IF marker[Len(marker)] = "*" THEN "END"
    ELSE IF Head(marker) \in {"q", "p", "m"} THEN "PARAGRAPH"
    ELSE "CHARACTER"

\* the token type of a marker matched by the first branch of the pattern
MarkerTokenType(marker) ==
    IF marker = <<"i", "d">> THEN "BOOK"
    ELSE IF marker = <<"c">> THEN "CHAPTER"
    ELSE IF marker = <<"v">> THEN "VERSE"
    ELSE IF Head(marker) \in {"q", "p", "m"} THEN "PARAGRAPH"
    ELSE IF marker[Len(marker)] = "*" THEN "END"
    ELSE "CHARACTER"

UsfmToken(type, marker, txt, data, ln, col) ==
    [type |-> type, marker |-> marker, text |-> txt, data |-> data,
     line_number |-> ln, column_number |-> col]

TextToken(txt, ln, col) == UsfmToken("TEXT", None, txt, None, ln, col)

\* the scan going on from where the match starts
NextPosAtStart(match, end_pos) == match.start

\* the position the loop continues from after a marker: match.end(); the
\* end_pos computed for a data-carrying marker is not used
NextPos(match, end_pos) == match.end

\* one iteration of the while loop that finds a marker: [tokens, pos]
MarkerIteration(line, ln, p, toks, match) ==
    LET before == IF match.start > p
                  THEN <<TextToken(Slice(line, p, match.start), ln, p)>> ELSE <<>>
        is_end == match.group3 = <<"*">>
        marker == IF is_end THEN <<"*">> ELSE match.group1
        token_type == IF is_end THEN "END" ELSE MarkerTokenType(marker)
        data_match == DataSearch(Slice(line, match.end, Len(line)))
        has_data == token_type \in {"CHAPTER", "VERSE", "BOOK"} /\ data_match.found
        data == IF has_data THEN data_match.group0 ELSE None
        end_pos == IF has_data THEN match.end + data_match.end ELSE match.end
        tok == UsfmToken(token_type, marker, None, data, ln, match.start)
    IN  [tokens |-> toks \o before \o <<tok>>, pos |-> NextPos(match, end_pos)]

\* the end-of-line token put at column 0
NewlineTokenAtZero(line, ln) == TextToken(<<"\n">>, ln, 0)

\* the token appended at the end of each line
NewlineToken(line, ln) == TextToken(<<"\n">>, ln, Len(line))

\* the else branch of the loop (remaining text, break) and the newline token
RemainingText(line, ln, p, toks) ==
    toks \o (IF p < Len(line) THEN <<TextToken(Slice(line, p, Len(line)), ln, p)>> ELSE <<>>)
         \o <<NewlineToken(line, ln)>>

\* _tokenize_line from position p on
RECURSIVE TokenizeLineFrom(_, _, _, _)
TokenizeLineFrom(line, ln, p, toks) ==
    IF p < Len(line)
    THEN LET match == TokenRegexSearch(line, p)
         IN  IF match.found
             THEN LET it == MarkerIteration(line, ln, p, toks, match)
                  IN  TokenizeLineFrom(line, ln, it.pos, it.tokens)
             ELSE RemainingText(line, ln, p, toks)
    ELSE toks \o <<NewlineToken(line, ln)>>

\* tokenize
RECURSIVE TokenizeLines(_, _, _)
TokenizeLines(ls, ln, toks) ==
    IF ln > Len(ls) THEN toks
    ELSE TokenizeLines(ls, ln + 1, TokenizeLineFrom(ls[ln], ln, 0, toks))

Tokenize(t) == TokenizeLines(SplitLines(ReplaceCRLF(t)), 1, <<>>)

-----------------------------------------------------------------------------
(* Canon and VerseRef *)

ALL_BOOK_IDS == <<
    "GEN", "EXO", "LEV", "NUM", "DEU", "JOS", "JDG", "RUT", "1SA", "2SA",
    "1KI", "2KI", "1CH", "2CH", "EZR", "NEH", "EST", "JOB", "PSA", "PRO",
    "ECC", "SNG", "ISA", "JER", "LAM", "EZK", "DAN", "HOS", "JOL", "AMO",
    "OBA", "JON", "MIC", "NAM", "HAB", "ZEP", "HAG", "ZEC", "MAL", "MAT",
    "MRK", "LUK", "JHN", "ACT", "ROM", "1CO", "2CO", "GAL", "EPH", "PHP",
    "COL", "1TH", "2TH", "1TI", "2TI", "TIT", "PHM", "HEB", "JAS", "1PE",
    "2PE", "1JN", "2JN", "3JN", "JUD", "REV", "TOB", "JDT", "ESG", "WIS",
    "SIR", "BAR", "LJE", "S3Y", "SUS", "BEL", "1MA", "2MA", "3MA", "4MA",
    "1ES", "2ES", "MAN", "PS2", "ODA", "PSS", "JSA", "JDB", "TBS", "SST",
    "DNT", "BLT", "XXA", "XXB", "XXC", "XXD", "XXE", "XXF", "XXG", "FRT",
    "BAK", "OTH", "3ES", "EZA", "5EZ", "6EZ", "INT", "CNC", "GLO", "TDX",
    "NDX", "DAG", "PS3", "2BA", "LBA", "JUB", "ENO", "1MQ", "2MQ", "3MQ",
    "REP", "4BA", "LAO" >>

\* a sequence of characters as one string
RECURSIVE Str(_)
Str(s) == IF s = <<>> THEN "" ELSE Head(s) \o Str(Tail(s))

LowerLetters == <<"a", "b", "c", "d", "e", "f", "g", "h", "i", "j", "k", "l", "m",
                  "n", "o", "p", "q", "r", "s", "t", "u", "v", "w", "x", "y", "z">>
UpperLetters == <<"A", "B", "C", "D", "E", "F", "G", "H", "I", "J", "K", "L", "M",
                  "N", "O", "P", "Q", "R", "S", "T", "U", "V", "W", "X", "Y", "Z">>

\* str.upper()
Upper(s) ==
    [k \in 1..Len(s) |->
        IF \E j \in 1..26 : LowerLetters[j] = s[k]
        THEN UpperLetters[CHOOSE j \in 1..26 : LowerLetters[j] = s[k]]
        ELSE s[k]]

\* BOOK_NUMBERS.get(id.upper(), 0)
book_id_to_number(id) ==
    LET u == Str(Upper(id))
    IN  IF \E n \in 1..Len(ALL_BOOK_IDS) : ALL_BOOK_IDS[n] = u
        THEN CHOOSE n \in 1..Len(ALL_BOOK_IDS) : ALL_BOOK_IDS[n] = u
        ELSE 0

\* ALL_BOOK_IDS with every id as its sequence of characters
ALL_BOOK_ID_CHARS == <<
    <<"G", "E", "N">>, <<"E", "X", "O">>, <<"L", "E", "V">>, <<"N", "U", "M">>,
    <<"D", "E", "U">>, <<"J", "O", "S">>, <<"J", "D", "G">>, <<"R", "U", "T">>,
    <<"1", "S", "A">>, <<"2", "S", "A">>, <<"1", "K", "I">>, <<"2", "K", "I">>,
    <<"1", "C", "H">>, <<"2", "C", "H">>, <<"E", "Z", "R">>, <<"N", "E", "H">>,
    <<"E", "S", "T">>, <<"J", "O", "B">>, <<"P", "S", "A">>, <<"P", "R", "O">>,
    <<"E", "C", "C">>, <<"S", "N", "G">>, <<"I", "S", "A">>, <<"J", "E", "R">>,
    <<"L", "A", "M">>, <<"E", "Z", "K">>, <<"D", "A", "N">>, <<"H", "O", "S">>,
    <<"J", "O", "L">>, <<"A", "M", "O">>, <<"O", "B", "A">>, <<"J", "O", "N">>,
    <<"M", "I", "C">>, <<"N", "A", "M">>, <<"H", "A", "B">>, <<"Z", "E", "P">>,
    <<"H", "A", "G">>, <<"Z", "E", "C">>, <<"M", "A", "L">>, <<"M", "A", "T">>,
    <<"M", "R", "K">>, <<"L", "U", "K">>, <<"J", "H", "N">>, <<"A", "C", "T">>,
    <<"R", "O", "M">>, <<"1", "C", "O">>, <<"2", "C", "O">>, <<"G", "A", "L">>,
    <<"E", "P", "H">>, <<"P", "H", "P">>, <<"C", "O", "L">>, <<"1", "T", "H">>,
    <<"2", "T", "H">>, <<"1", "T", "I">>, <<"2", "T", "I">>, <<"T", "I", "T">>,
    <<"P", "H", "M">>, <<"H", "E", "B">>, <<"J", "A", "S">>, <<"1", "P", "E">>,
    <<"2", "P", "E">>, <<"1", "J", "N">>, <<"2", "J", "N">>, <<"3", "J", "N">>,
    <<"J", "U", "D">>, <<"R", "E", "V">>, <<"T", "O", "B">>, <<"J", "D", "T">>,
    <<"E", "S", "G">>, <<"W", "I", "S">>, <<"S", "I", "R">>, <<"B", "A", "R">>,
    <<"L", "J", "E">>, <<"S", "3", "Y">>, <<"S", "U", "S">>, <<"B", "E", "L">>,
    <<"1", "M", "A">>, <<"2", "M", "A">>, <<"3", "M", "A">>, <<"4", "M", "A">>,
    <<"1", "E", "S">>, <<"2", "E", "S">>, <<"M", "A", "N">>, <<"P", "S", "2">>,
    <<"O", "D", "A">>, <<"P", "S", "S">>, <<"J", "S", "A">>, <<"J", "D", "B">>,
    <<"T", "B", "S">>, <<"S", "S", "T">>, <<"D", "N", "T">>, <<"B", "L", "T">>,
    <<"X", "X", "A">>, <<"X", "X", "B">>, <<"X", "X", "C">>, <<"X", "X", "D">>,
    <<"X", "X", "E">>, <<"X", "X", "F">>, <<"X", "X", "G">>, <<"F", "R", "T">>,
    <<"B", "A", "K">>, <<"O", "T", "H">>, <<"3", "E", "S">>, <<"E", "Z", "A">>,
    <<"5", "E", "Z">>, <<"6", "E", "Z">>, <<"I", "N", "T">>, <<"C", "N", "C">>,
    <<"G", "L", "O">>, <<"T", "D", "X">>, <<"N", "D", "X">>, <<"D", "A", "G">>,
    <<"P", "S", "3">>, <<"2", "B", "A">>, <<"L", "B", "A">>, <<"J", "U", "B">>,
    <<"E", "N", "O">>, <<"1", "M", "Q">>, <<"2", "M", "Q">>, <<"3", "M", "Q">>,
    <<"R", "E", "P">>, <<"4", "B", "A">>, <<"L", "A", "O">> >>

FIRST_BOOK == 1
LAST_BOOK == Len(ALL_BOOK_IDS)

\* the default of error_value: "***"
DefaultErrorValue == <<"*", "*", "*">>

\* book_number_to_id(number, error_value)
book_number_to_id(number, error_value) ==
    IF number < 1 \/ number >= Len(ALL_BOOK_IDS) THEN error_value
    ELSE LET idx == number - 1
         IN  ALL_BOOK_ID_CHARS[idx + 1]

DecimalValue(c) == CHOOSE d \in 0..9 : <<"0", "1", "2", "3", "4", "5", "6", "7", "8", "9">>[d + 1] = c

\* int(s) for a string of decimals
RECURSIVE IntOf(_)
IntOf(s) == IF s = <<>> THEN 0 ELSE 10 * IntOf(SubSeq(s, 1, Len(s) - 1)) + DecimalValue(s[Len(s)])

\* int(s) raises ValueError: s.isdigit() held and s has a digit that is no decimal
IntRaises(s) == \E k \in 1..Len(s) : ~IsDecimal(s[k])

\* int(s) if s.isdigit() else 0, where it does not raise
NumOrZero(s) == IF IsDigit(s) THEN IntOf(s) ELSE 0

\* VerseRef(book, chapter, verse) with three strings raises
VerseRefRaises(book, chapter, verse) ==
    \/ IsDigit(chapter) /\ IntRaises(chapter)
    \/ IsDigit(verse) /\ IntRaises(verse)

\* VerseRef(book, chapter, verse) with three strings
VerseRef(book, chapter, verse) ==
    [book_num |-> book_id_to_number(book), chapter_num |-> NumOrZero(chapter),
     verse_num |-> NumOrZero(verse), verse |-> verse]

\* VerseRef(book, chapter, verse) with the number of a book and two strings
VerseRefOfNumber(book, chapter, verse) ==
    [book_num |-> book, chapter_num |-> NumOrZero(chapter),
     verse_num |-> NumOrZero(verse), verse |-> verse]

\* the property book of a VerseRef
VerseRefBook(ref) == book_number_to_id(ref.book_num, <<>>)

\* VerseRef(versification=versification): the defaults 0, 0, 0
DefaultVerseRef == [book_num |-> 0, chapter_num |-> 0, verse_num |-> 0, verse |-> <<"0">>]

-----------------------------------------------------------------------------
(* UsfmStylesheet and UsfmParserState *)

\* UsfmTag(marker) as _create_tag leaves it
NewTag(marker) ==
    [style_type |-> "UNKNOWN",
     text_properties |-> IF marker # <<"c">> /\ marker # <<"v">> THEN {"PUBLISHABLE"} ELSE {},
     text_type |-> {}]

\* _tags after _create_default_tags
DefaultTags ==
    (<<"i", "d">> :> [style_type |-> "PARAGRAPH", text_properties |-> {"BOOK"}, text_type |-> {}])
    @@ (<<"c">> :> [style_type |-> "PARAGRAPH", text_properties |-> {"CHAPTER"}, text_type |-> {}])
    @@ (<<"v">> :> [style_type |-> "CHARACTER", text_properties |-> {"VERSE"}, text_type |-> {}])

\* the tag get_tag returns
get_tag(tgs, marker) == IF marker \in DOMAIN tgs THEN tgs[marker] ELSE NewTag(marker)

\* a get_tag that makes the tag of a marker that has none and does not
\* store it
TagsAfterGetNoStore(tgs, marker) == tgs

\* _tags after get_tag(marker): _create_tag stores the tag of a marker that
\* has none
TagsAfterGet(tgs, marker) ==
    IF marker \in DOMAIN tgs THEN tgs ELSE (marker :> NewTag(marker)) @@ tgs

ParaTypes == {"PARA", "BOOK", "ROW", "SIDEBAR"}

\* a paragraph element required: false when there is none on the stack
is_verse_para_in_para(stk, tgs) ==
    /\ \E k \in 1..Len(stk) : stk[k].type \in ParaTypes
    /\ LET k == CHOOSE j \in 1..Len(stk) :
                     /\ stk[j].type \in ParaTypes
                     /\ \A h \in (j + 1)..Len(stk) : stk[h].type \notin ParaTypes
       IN  tgs[stk[k].marker].text_type \in {{"VERSE_TEXT"}, {}}

\* is_verse_para: no paragraph element on the stack, or the innermost one's
\* tag has text_type VERSE_TEXT or NOT_SPECIFIED
is_verse_para(stk, tgs) ==
    IF \A k \in 1..Len(stk) : stk[k].type \notin ParaTypes THEN TRUE
    ELSE LET k == CHOOSE j \in 1..Len(stk) :
                      /\ stk[j].type \in ParaTypes
                      /\ \A h \in (j + 1)..Len(stk) : stk[h].type \notin ParaTypes
             para_tag == get_tag(tgs, stk[k].marker)
         IN  para_tag.text_type = {"VERSE_TEXT"} \/ para_tag.text_type = {}

\* is_verse_text
is_verse_text(stk, tgs) ==
    IF \E k \in 1..Len(stk) : stk[k].type \in {"SIDEBAR", "NOTE"} THEN FALSE
    ELSE IF ~is_verse_para(stk, tgs) THEN FALSE
    ELSE \A k \in 1..Len(stk) :
            (stk[k].type = "CHAR" /\ stk[k].marker # None) =>
                LET char_tag == get_tag(tgs, stk[k].marker)
                IN  char_tag.text_type = {"VERSE_TEXT"} \/ char_tag.text_type = {}

-----------------------------------------------------------------------------
(* UsfmParser.parse: the driver loop on a record of its local variables *)

\* dict assignment d[k] = v
Put(d, k, v) == [x \in DOMAIN d \cup {k} |-> IF x = k THEN v ELSE d[x]]

EmptyDict == [x \in {} |-> <<>>]

\* f"{current_book} {current_chapter}:{current_verse}"
VerseKey(book, chapter, verse) == book \o <<" ">> \o chapter \o <<":">> \o verse

\* the local variables of parse when the loop starts
InitialLocals ==
    [verses |-> EmptyDict, current_book |-> <<>>, current_chapter |-> <<>>,
     current_verse |-> <<>>, current_verse_text |-> <<>>,
     verse_ref |-> DefaultVerseRef, raised |-> FALSE]

\* the branch of the if/elif chain that token takes
Branch(token, stk, tgs) ==
    IF token.type = "BOOK" /\ token.data # None THEN "book"
    ELSE IF token.type = "CHAPTER" /\ token.data # None THEN "chapter"
    ELSE IF token.type = "VERSE" /\ token.data # None THEN "verse"
    ELSE IF token.type = "TEXT" /\ is_verse_text(stk, tgs) THEN "text"
    ELSE "none"

\* a Book token that also drops the pending verse, as a Chapter token does
OnBookDropsVerse(st, token) ==
    [st EXCEPT !.current_book = token.data, !.current_verse = <<>>,
               !.current_verse_text = <<>>]

OnBook(st, token) == [st EXCEPT !.current_book = token.data]

\* what a Chapter token with data does to the pending verse and its text
ChapterReset(st) == [st EXCEPT !.current_verse = <<>>, !.current_verse_text = <<>>]

OnChapter(st, token) == ChapterReset([st EXCEPT !.current_chapter = token.data])

\* saving the verse without the test of its trimmed length
SaveVerseUnchecked(st) ==
    IF st.current_book # <<>> /\ st.current_chapter # <<>> /\ st.current_verse # <<>>
    THEN [st EXCEPT !.verses =
              Put(st.verses, VerseKey(st.current_book, st.current_chapter, st.current_verse),
                  Strip(st.current_verse_text))]
    ELSE st

\* "Save previous verse if exists" and "Add the last verse"
SaveVerse(st) ==
    IF st.current_book # <<>> /\ st.current_chapter # <<>> /\ st.current_verse # <<>>
    THEN LET verse_ref_key == VerseKey(st.current_book, st.current_chapter, st.current_verse)
             trimmed_verse_text == Strip(st.current_verse_text)
         IN  IF Len(trimmed_verse_text) > 0
             THEN [st EXCEPT !.verses = Put(st.verses, verse_ref_key, trimmed_verse_text)]
             ELSE st
    ELSE st

OnVerse(st, token) ==
    LET saved == SaveVerse(st)
        opened == [saved EXCEPT !.current_verse = token.data, !.current_verse_text = <<>>]
    IN  IF VerseRefRaises(opened.current_book, opened.current_chapter, opened.current_verse)
        THEN [opened EXCEPT !.raised = TRUE]
        ELSE [opened EXCEPT !.verse_ref =
                  VerseRef(opened.current_book, opened.current_chapter, opened.current_verse)]

\* the characters the echo skips after the verse number
EchoSkipped(c) == IsSpace(c) \/ c \in {".", ",", ";", ":"}

RECURSIVE EchoOffset(_, _)
EchoOffset(txt, offset) ==
    IF offset < Len(txt) /\ EchoSkipped(At(txt, offset)) THEN EchoOffset(txt, offset + 1) ELSE offset

\* the text appended for a Text token: the echo of the verse number is cut
\* when the previous token is a Verse token
Appended(st, toks, i) ==
    LET token == toks[i + 1]
        stripped == Strip(token.text)
    IN  IF /\ i > 0
           /\ toks[i].type = "VERSE"
           /\ token.text # <<>>
           /\ stripped # <<>>
           /\ StartsWith(stripped, st.current_verse)
        THEN IF StartsWith(stripped, st.current_verse)
             THEN Slice(stripped, EchoOffset(stripped, Len(st.current_verse)), Len(stripped)) \o <<" ">>
             ELSE token.text
        ELSE token.text

OnText(st, toks, i) ==
    IF st.current_book # <<>> /\ st.current_chapter # <<>> /\ st.current_verse # <<>>
    THEN [st EXCEPT !.current_verse_text = st.current_verse_text \o Appended(st, toks, i)]
    ELSE st

\* the body of the loop for tokens[i]
LoopBody(st, toks, i, stk, tgs) ==
    LET token == toks[i + 1]
        b == Branch(token, stk, tgs)
    IN  IF b = "book" THEN OnBook(st, token)
        ELSE IF b = "chapter" THEN OnChapter(st, token)
        ELSE IF b = "verse" THEN OnVerse(st, token)
        ELSE IF b = "text" THEN OnText(st, toks, i)
        ELSE st

\* the value stripped and its white space left as it is
CleanValueStripOnly(v) == Strip(v)

\* "Clean up the verse text": every value is collapsed and stripped
CleanValue(v) == Strip(CollapseSpace(v))

CleanUp(d) == [k \in DOMAIN d |-> CleanValue(d[k])]

\* the loop from tokens[i] on, stopping where VerseRef raises
RECURSIVE LoopFrom(_, _, _, _, _)
LoopFrom(st, toks, i, stk, tgs) ==
    IF i >= Len(toks) \/ st.raised THEN st
    ELSE LoopFrom(LoopBody(st, toks, i, stk, tgs), toks, i + 1, stk, tgs)

\* parse(t) on a parser whose state stack and stylesheet are stk and tgs:
\* [raised, verses]
ParseResult(t, stk, tgs) ==
    LET st == LoopFrom(InitialLocals, Tokenize(t), 0, stk, tgs)
    IN  IF st.raised THEN [raised |-> TRUE, verses |-> EmptyDict]
        ELSE [raised |-> FALSE, verses |-> CleanUp(SaveVerse(st).verses)]

-----------------------------------------------------------------------------
(* The inputs of parse: a header that opens a verse, then up to MaxBody    *)
(* fragments                                                               *)

MaxBody == 3

\* \id GEN\c 1\v 1 In the beginning.
MinimalInput ==
    <<"\\", "i", "d", " ", "G", "E", "N", "\\", "c", " ", "1", "\\", "v", " ", "1", " ",
      "I", "n", " ", "t", "h", "e", " ", "b", "e", "g", "i", "n", "n", "i", "n", "g", ".">>

\* \id GEN \c 1 \v 1
SpacedHeader ==
    <<"\\", "i", "d", " ", "G", "E", "N", " ", "\\", "c", " ", "1", " ", "\\", "v", " ", "1">>

Headers == {MinimalInput, SpacedHeader, SpacedHeader \o <<" ", "a">>}

Fragments ==
    { <<" ">>, <<"\n">>, <<" ", ".">>, <<" ", "a">>, <<" ", "b">>, <<" ", "1">>,
      <<"\\", "v", " ", "1">>, <<"\\", "c", " ", "1">>, <<"\\", "c">>,
      <<"\\", "f">>, <<"\\", "f", "*">>, <<"\\", "v", " ", "²">> }

RECURSIVE Flatten(_)
Flatten(ss) == IF ss = <<>> THEN <<>> ELSE Head(ss) \o Flatten(Tail(ss))

Inputs ==
    { h \o Flatten(b) : h \in Headers, b \in UNION { [1..n -> Fragments] : n \in 0..MaxBody } }

-----------------------------------------------------------------------------
(* The state machine *)

Locals ==
    [verses |-> verses, current_book |-> current_book, current_chapter |-> current_chapter,
     current_verse |-> current_verse, current_verse_text |-> current_verse_text,
     verse_ref |-> verse_ref, raised |-> pc = "raised"]

SetLocals(st) ==
    /\ verses' = st.verses
    /\ current_book' = st.current_book
    /\ current_chapter' = st.current_chapter
    /\ current_verse' = st.current_verse
    /\ current_verse_text' = st.current_verse_text
    /\ verse_ref' = st.verse_ref

locals == <<verses, current_book, current_chapter, current_verse, current_verse_text, verse_ref>>

\* a parser that has not parsed yet, with the stylesheet tgs
ParserInit(tgs) ==
    /\ text = <<>>
    /\ pc = "idle"
    /\ lines = <<>>
    /\ line_number = 1
    /\ pos = 0
    /\ tokens = <<>>
    /\ index = -1
    /\ verses = EmptyDict
    /\ current_book = <<>>
    /\ current_chapter = <<>>
    /\ current_verse = <<>>
    /\ current_verse_text = <<>>
    /\ verse_ref = DefaultVerseRef
    /\ stack = <<>>
    /\ tags = tgs

\* parse is called on its own: main has no paths
Init ==
    /\ ParserInit(DefaultTags)
    /\ file_paths = <<>>
    /\ file_number = 0
    /\ all_verses = EmptyDict
    /\ earlier = <<>>

\* a tokenizer that keeps one token list for all its calls
ParseCallKeepsTokens(t) ==
    /\ pc = "idle"
    /\ text' = t
    /\ lines' = SplitLines(ReplaceCRLF(t))
    /\ line_number' = 1
    /\ pos' = 0
    /\ pc' = "tokenize"
    /\ UNCHANGED <<tokens, index, locals, stack, tags, main_locals, earlier>>

\* parse(t) is called: tokenize starts on the lines of t
ParseCall(t) ==
    /\ pc = "idle"
    /\ text' = t
    /\ lines' = SplitLines(ReplaceCRLF(t))
    /\ line_number' = 1
    /\ pos' = 0
    /\ tokens' = <<>>
    /\ pc' = "tokenize"
    /\ UNCHANGED <<index, locals, stack, tags, main_locals, earlier>>

InLine == pc = "tokenize" /\ line_number <= Len(lines)

\* an iteration of the while loop in which the pattern matches
TokenizeMarker ==
    /\ InLine
    /\ pos < Len(lines[line_number])
    /\ LET match == TokenRegexSearch(lines[line_number], pos)
           it == MarkerIteration(lines[line_number], line_number, pos, tokens, match)
       IN  match.found /\ tokens' = it.tokens /\ pos' = it.pos
    /\ UNCHANGED <<text, pc, lines, line_number, index, locals, stack, tags, main_locals, earlier>>

\* the iteration in which it does not: the rest is text, the loop breaks,
\* the newline token ends the line
TokenizeRemaining ==
    /\ InLine
    /\ pos < Len(lines[line_number])
    /\ ~TokenRegexSearch(lines[line_number], pos).found
    /\ tokens' = RemainingText(lines[line_number], line_number, pos, tokens)
    /\ line_number' = line_number + 1
    /\ pos' = 0
    /\ UNCHANGED <<text, pc, lines, index, locals, stack, tags, main_locals, earlier>>

\* the loop condition fails: the newline token ends the line
TokenizeLineEnd ==
    /\ InLine
    /\ pos >= Len(lines[line_number])
    /\ tokens' = tokens \o <<NewlineToken(lines[line_number], line_number)>>
    /\ line_number' = line_number + 1
    /\ pos' = 0
    /\ UNCHANGED <<text, pc, lines, index, locals, stack, tags, main_locals, earlier>>

\* tokenize returns; parse builds its state and its local variables
TokenizeReturn ==
    /\ pc = "tokenize"
    /\ line_number > Len(lines)
    /\ pc' = "drive"
    /\ index' = -1
    /\ stack' = <<>>
    /\ SetLocals(InitialLocals)
    /\ UNCHANGED <<text, lines, line_number, pos, tokens, tags, main_locals, earlier>>

InLoop == pc = "drive" /\ index + 1 < Len(tokens)

TakesBranch(b) == InLoop /\ Branch(tokens[index + 2], stack, tags) = b

DriveBook ==
    /\ TakesBranch("book")
    /\ SetLocals(OnBook(Locals, tokens[index + 2]))
    /\ index' = index + 1
    /\ UNCHANGED <<text, pc, lines, line_number, pos, tokens, stack, tags, main_locals, earlier>>

DriveChapter ==
    /\ TakesBranch("chapter")
    /\ SetLocals(OnChapter(Locals, tokens[index + 2]))
    /\ index' = index + 1
    /\ UNCHANGED <<text, pc, lines, line_number, pos, tokens, stack, tags, main_locals, earlier>>

\* a Verse token with data; VerseRef may raise, which ends parse
DriveVerse ==
    /\ TakesBranch("verse")
    /\ LET st == OnVerse(Locals, tokens[index + 2])
       IN  SetLocals(st) /\ pc' = IF st.raised THEN "raised" ELSE pc
    /\ index' = index + 1
    /\ UNCHANGED <<text, lines, line_number, pos, tokens, stack, tags, main_locals, earlier>>

DriveText ==
    /\ TakesBranch("text")
    /\ LET st == OnText(Locals, tokens, index + 1) IN SetLocals(st)
    /\ index' = index + 1
    /\ UNCHANGED <<text, pc, lines, line_number, pos, tokens, stack, tags, main_locals, earlier>>

\* a token no branch handles
DriveOther ==
    /\ TakesBranch("none")
    /\ index' = index + 1
    /\ UNCHANGED <<text, pc, lines, line_number, pos, tokens, locals, stack, tags, main_locals, earlier>>

\* after the loop: "Add the last verse"
LastVerse ==
    /\ pc = "drive"
    /\ index + 1 >= Len(tokens)
    /\ SetLocals(SaveVerse(Locals))
    /\ pc' = "clean"
    /\ UNCHANGED <<text, lines, line_number, pos, tokens, index, stack, tags, main_locals, earlier>>

\* "Clean up the verse text", and return verses
CleanAndReturn ==
    /\ pc = "clean"
    /\ verses' = CleanUp(verses)
    /\ pc' = "done"
    /\ UNCHANGED <<text, lines, line_number, pos, tokens, index, current_book, current_chapter,
                   current_verse, current_verse_text, verse_ref, stack, tags, main_locals, earlier>>

Next ==
    \/ pc = "idle" /\ \E t \in Inputs : ParseCall(t)
    \/ TokenizeMarker
    \/ TokenizeRemaining
    \/ TokenizeLineEnd
    \/ TokenizeReturn
    \/ DriveBook
    \/ DriveChapter
    \/ DriveVerse
    \/ DriveText
    \/ DriveOther
    \/ LastVerse
    \/ CleanAndReturn

Spec == Init /\ [][Next]_vars

-----------------------------------------------------------------------------
(* Properties *)

Returned == pc = "done"

\* the token the next iteration of the driver loop handles (1-based place)
Cursor == index + 2

GEN_1_1 == <<"G", "E", "N", " ", "1", ":", "1">>

\* C1: parse of \id GEN\c 1\v 1 In the beginning. returns exactly
\* {"GEN 1:1": "In the beginning."}
C1_MinimalInputResult ==
    text = MinimalInput =>
        /\ pc # "raised"
        /\ Returned =>
              verses = (GEN_1_1 :> <<"I", "n", " ", "t", "h", "e", " ", "b", "e", "g", "i", "n",
                                     "n", "i", "n", "g", ".">>)

Words == { <<" ", "a">>, <<" ", "b">> }

\* C2: for the source \v n n body (here n = 1, the body one or two words, the
\* verse the only one of the input) the stored text starts with the body and
\* not with n
C2_EchoSuppressed ==
    \A w \in Words, v \in Words \cup {<<>>} :
        (Returned /\ text = SpacedHeader \o <<" ", "1">> \o w \o v) =>
            /\ GEN_1_1 \in DOMAIN verses
            /\ StartsWith(verses[GEN_1_1], Tail(w))
            /\ ~StartsWith(verses[GEN_1_1], <<"1">>)

HasBackslash(x) == \E k \in 1..Len(x) : x[k] = "\\"

\* book, chapter and verse are set, to labels that hold no marker
VerseOpen ==
    /\ current_book # <<>> /\ current_chapter # <<>> /\ current_verse # <<>>
    /\ ~HasBackslash(current_book) /\ ~HasBackslash(current_chapter)
    /\ ~HasBackslash(current_verse)

IsLetter(c) == \E j \in 1..26 : c = LowerLetters[j] \/ c = UpperLetters[j]

\* x holds a word
HasWord(x) == \E k \in 1..Len(x) : IsLetter(x[k])

\* a verse is open and its text holds a word, so that it is not empty after
\* trimming
PendingText == VerseOpen /\ HasWord(current_verse_text) /\ Strip(current_verse_text) # <<>>

\* this step ends the open verse: its buffer is dropped, or the loop is over
EndsVerse ==
    /\ pc = "drive"
    /\ \/ ~StartsWith(current_verse_text', current_verse_text)
       \/ pc' = "clean"

PendingKey == VerseKey(current_book, current_chapter, current_verse)

\* C3: a verse that has accumulated words, so text that is not empty after
\* trimming, is in the map, under its key, once it has ended, whichever token
\* ends it
C3_VerseKept ==
    [][ (PendingText /\ EndsVerse) =>
            (PendingKey \in DOMAIN verses' /\ verses'[PendingKey] = Strip(current_verse_text)) ]_vars

NoteMarkers == { <<"f">>, <<"x">>, <<"f", "e">> }

\* tokens[k] lies between a note's opening marker and its closing marker
InsideNote(toks, k) ==
    \E j \in 1..(k - 1) :
        /\ toks[j].marker \in NoteMarkers
        /\ \A m \in (j + 1)..(k - 1) : toks[m].marker # toks[j].marker \o <<"*">>
        /\ \E e \in (k + 1)..Len(toks) : toks[e].marker = toks[j].marker \o <<"*">>

\* C4: the words of a note (between its opening marker and its end marker)
\* are not appended to the text of the open verse
C4_NoteTextExcluded ==
    [][ ( /\ InLoop
          /\ tokens[Cursor].type = "TEXT"
          /\ HasWord(tokens[Cursor].text)
          /\ InsideNote(tokens, Cursor)
          /\ VerseOpen )
        => current_verse_text' = current_verse_text ]_vars

\* C5: parse never raises
C5_NeverRaises == pc # "raised"

-----------------------------------------------------------------------------
\* what is left to do, as a triple ordered lexicographically
PhaseRank ==
    CASE pc = "idle" -> 4
      [] pc = "tokenize" -> 3
      [] pc = "drive" -> 2
      [] pc = "clean" -> 1
      [] OTHER -> 0

Measure ==
    CASE pc = "tokenize" ->
            <<PhaseRank, Len(lines) + 1 - line_number,
              IF line_number <= Len(lines) THEN Len(lines[line_number]) - pos ELSE 0>>
      [] pc = "drive" -> <<PhaseRank, Len(tokens) - (index + 1), 0>>
      [] OTHER -> <<PhaseRank, 0, 0>>

LexLess(a, b) ==
    \/ a[1] < b[1]
    \/ a[1] = b[1] /\ a[2] < b[2]
    \/ a[1] = b[1] /\ a[2] = b[2] /\ a[3] < b[3]

Ended == pc \in {"done", "raised"}

\* some step of parse is possible: the guards of the steps
CanStep ==
    \/ pc = "idle"
    \/ InLine /\ pos < Len(lines[line_number])
    \/ InLine /\ pos >= Len(lines[line_number])
    \/ pc = "tokenize" /\ line_number > Len(lines)
    \/ InLoop /\ Branch(tokens[Cursor], stack, tags) \in {"book", "chapter", "verse", "text", "none"}
    \/ pc = "drive" /\ index + 1 >= Len(tokens)
    \/ pc = "clean"

\* C6: parse terminates: what is left to do is never negative and every step
\* lessens it, a step is possible until parse has ended, the scan position
\* grows in every iteration that finds a marker, and the driver goes through
\* the tokens once, one token a step
C6_Terminates ==
    [][ /\ LexLess(Measure', Measure)
        /\ Measure'[2] >= 0 /\ Measure'[3] >= 0
        /\ Ended' \/ CanStep'
        /\ (pc = "tokenize" /\ pc' = "tokenize" /\ line_number' = line_number) => pos' > pos
        /\ (pc = "drive" /\ pc' = "drive") => index' = index + 1
        /\ pc = "drive" => tokens' = tokens ]_vars

\* a parse has returned after an iteration found a marker and the driver has
\* handled every token
C6_Witness ==
    /\ Returned
    /\ index + 1 = Len(tokens)
    /\ \E k \in 1..Len(tokens) : tokens[k].type = "VERSE"
    /\ \E k \in 1..Len(tokens) : tokens[k].type = "CHARACTER"

-----------------------------------------------------------------------------
\* t[k] is white space that follows a word, a numeral or punctuation (not a
\* marker) of a verse body: a verse marker and its numeral stand before it
BodySpace(t, k) ==
    /\ IsSpace(t[k])
    /\ k > 1 /\ ~IsSpace(t[k - 1])
    /\ \E a \in 1..(k - 1) :
          /\ \A h \in a..(k - 1) : ~IsSpace(t[h]) /\ t[h] # "\\"
          /\ a = 1 \/ IsSpace(t[a - 1])
    /\ \E j \in 1..(k - 4) :
          t[j] = "\\" /\ t[j + 1] = "v" /\ IsSpace(t[j + 2]) /\ ~IsSpace(t[j + 3])

\* t with the character c put in before t[k]
InsertAt(t, k, c) == SubSeq(t, 1, k - 1) \o <<c>> \o SubSeq(t, k, Len(t))

\* what the parse that has ended gave
Outcome ==
    [raised |-> pc = "raised", verses |-> IF pc = "raised" THEN EmptyDict ELSE verses]

\* C7: more white space where white space stands in a verse body (right
\* after the verse numeral too) does not change what parse returns
C7_WhitespacePerturbation ==
    Ended =>
        \A k \in 1..Len(text) : \A c \in {" ", "\n"} :
            BodySpace(text, k) => ParseResult(InsertAt(text, k, c), stack, tags) = Outcome

\* C8: when a verse whose key is already in the map ends with words in its
\* text, the map holds that text under the key, whichever token ends it
C8_LastWriteWins ==
    [][ (PendingText /\ EndsVerse /\ PendingKey \in DOMAIN verses) =>
            verses'[PendingKey] = Strip(current_verse_text) ]_vars

\* the Verse token that opened the verse the driver is in
OpeningToken ==
    CHOOSE j \in 1..(Cursor - 1) :
        /\ tokens[j].type = "VERSE" /\ tokens[j].data # None
        /\ \A m \in (j + 1)..(Cursor - 1) : ~(tokens[m].type = "VERSE" /\ tokens[m].data # None)

\* since its Verse token the open verse has had markup, white space and the
\* numeral of its marker, and no other text
OnlyMarkup ==
    \A m \in (OpeningToken + 1)..(Cursor - 1) :
        tokens[m].type = "TEXT" =>
            \/ Strip(tokens[m].text) = <<>>
            \/ m = OpeningToken + 1 /\ Strip(tokens[m].text) = tokens[OpeningToken].data

NoBlankValue == \A k \in DOMAIN verses : Strip(verses[k]) # <<>>

AfterChapter(toks, k) ==
    \E j \in 1..(k - 1) :
        /\ toks[j].type = "CHAPTER"
        /\ \A m \in (j + 1)..(k - 1) : toks[m].type # "VERSE"

\* C10: words after a \c token and before the next \v token are appended to
\* the text of no verse, whether the \c token carries data or not
C10_TextAfterChapterDropped ==
    [][ ( /\ InLoop
          /\ tokens[Cursor].type = "TEXT"
          /\ HasWord(tokens[Cursor].text)
          /\ AfterChapter(tokens, Cursor)
          /\ VerseOpen )
        => current_verse_text' = current_verse_text ]_vars

-----------------------------------------------------------------------------
(* main and parse_usfm_file: the paths are gone through in order, each     *)
(* file is parsed by a parser of its own, and its dict is merged into      *)
(* all_verses                                                              *)

\* an update that keeps the value a key already has
UpdateKeepFirst(d, e) ==
    [k \in DOMAIN d \cup DOMAIN e |-> IF k \in DOMAIN d THEN d[k] ELSE e[k]]

\* d.update(e)
Update(d, e) ==
    [k \in DOMAIN d \cup DOMAIN e |-> IF k \in DOMAIN e THEN e[k] ELSE d[k]]

MaxFiles == 2

\* \id GEN \c 1 \v 1 a \p \v 2 b
TwoVerses ==
    SpacedHeader \o <<" ", "a", " ", "\\", "p", " ", "\\", "v", " ", "2", " ", "b">>

\* \id GEN \c 1 \v 2 a
SecondVerse ==
    <<"\\", "i", "d", " ", "G", "E", "N", " ", "\\", "c", " ", "1", " ", "\\", "v", " ", "2",
      " ", "a">>

\* the contents of the files: one verse, the same verse with another text,
\* another verse, two verses, a text on which parse raises, an empty file
FileTexts ==
    { SpacedHeader \o <<" ", "a">>, SpacedHeader \o <<" ", "b">>, SecondVerse, TwoVerses,
      SpacedHeader \o <<"\\", "v", " ", "²">>, <<>> }

\* a path: whether os.path.isfile holds for it, whether open and read
\* succeed, and what is read
Paths ==
    { [isfile |-> TRUE, readable |-> TRUE, content |-> t] : t \in FileTexts }
    \cup { [isfile |-> FALSE, readable |-> FALSE, content |-> <<>>],
           [isfile |-> TRUE, readable |-> FALSE, content |-> <<>>] }

MainInit ==
    /\ ParserInit(DefaultTags)
    /\ file_paths \in UNION { [1..n -> Paths] : n \in 0..MaxFiles }
    /\ file_number = 0
    /\ all_verses = EmptyDict
    /\ earlier = <<>>

AtPath == pc = "idle" /\ file_number < Len(file_paths)

\* os.path.isfile(file_path) is false: the path is passed over
MainSkip ==
    /\ AtPath
    /\ ~file_paths[file_number + 1].isfile
    /\ file_number' = file_number + 1
    /\ UNCHANGED <<text, pc, lines, line_number, pos, tokens, index, locals, stack, tags,
                   file_paths, all_verses, earlier>>

\* parse_usfm_file: open or read raises, {} is returned and merged
MainReadError ==
    /\ AtPath
    /\ file_paths[file_number + 1].isfile
    /\ ~file_paths[file_number + 1].readable
    /\ all_verses' = Update(all_verses, EmptyDict)
    /\ file_number' = file_number + 1
    /\ UNCHANGED <<text, pc, lines, line_number, pos, tokens, index, locals, stack, tags,
                   file_paths, earlier>>

\* parse_usfm_file: the content is read and parse is called on a new parser
MainParseFile ==
    /\ AtPath
    /\ file_paths[file_number + 1].isfile
    /\ file_paths[file_number + 1].readable
    /\ ParseCall(file_paths[file_number + 1].content)

\* parse has returned: all_verses.update(verses)
MainUpdate ==
    /\ pc = "done"
    /\ all_verses' = Update(all_verses, verses)
    /\ file_number' = file_number + 1
    /\ pc' = "idle"
    /\ UNCHANGED <<text, lines, line_number, pos, tokens, index, locals, stack, tags,
                   file_paths, earlier>>

\* parse has raised: parse_usfm_file catches it and returns {}, which is merged
MainCaught ==
    /\ pc = "raised"
    /\ all_verses' = Update(all_verses, EmptyDict)
    /\ file_number' = file_number + 1
    /\ pc' = "idle"
    /\ UNCHANGED <<text, lines, line_number, pos, tokens, index, locals, stack, tags,
                   file_paths, earlier>>

\* after the loop: all_verses is written out
MainOutput ==
    /\ pc = "idle"
    /\ file_number >= Len(file_paths)
    /\ pc' = "exit"
    /\ UNCHANGED <<text, lines, line_number, pos, tokens, index, locals, stack, tags,
                   main_locals, earlier>>

MainNext ==
    \/ MainSkip
    \/ MainReadError
    \/ MainParseFile
    \/ TokenizeMarker
    \/ TokenizeRemaining
    \/ TokenizeLineEnd
    \/ TokenizeReturn
    \/ DriveBook
    \/ DriveChapter
    \/ DriveVerse
    \/ DriveText
    \/ DriveOther
    \/ LastVerse
    \/ CleanAndReturn
    \/ MainUpdate
    \/ MainCaught
    \/ MainOutput

MainSpec == MainInit /\ [][MainNext]_vars

\* the map of one path: what parse returns for its content, and the empty
\* map for a file that cannot be read or on which parse raises
FileMap(f) ==
    IF f.isfile /\ f.readable THEN ParseResult(f.content, <<>>, DefaultTags).verses
    ELSE EmptyDict

\* the paths among the first n whose map has the key k
Producers(k, n) == { i \in 1..n : k \in DOMAIN FileMap(file_paths[i]) }

Last(S) == CHOOSE i \in S : \A j \in S : j <= i

\* C11: after any number of files the merged map has the keys of the maps of
\* the files gone through, and each key has the value it has in the last of
\* these files, in the order of the paths, whose map has the key
C11_LastFileWins ==
    /\ DOMAIN all_verses = UNION { DOMAIN FileMap(file_paths[i]) : i \in 1..file_number }
    /\ \A k \in DOMAIN all_verses :
          all_verses[k] = FileMap(file_paths[Last(Producers(k, file_number))])[k]

\* main has gone through two files: a key of both, with two values, and a
\* key of the first only are in the merged map
C11_Witness ==
    /\ pc = "exit"
    /\ file_number = 2
    /\ \E k \in DOMAIN all_verses :
          /\ Producers(k, 2) = {1, 2}
          /\ FileMap(file_paths[1])[k] # FileMap(file_paths[2])[k]
    /\ \E k \in DOMAIN all_verses : Producers(k, 2) = {1}

-----------------------------------------------------------------------------
(* tokenize on its own: the texts are up to MaxPieces pieces, each a       *)
(* marker of one kind, white space, a line end or a word                   *)

MaxPieces == 3

Pieces ==
    { <<"\\", "i", "d">>, <<"\\", "c">>, <<"\\", "v">>, <<"\\", "p">>, <<"\\", "p", "*">>,
      <<"\\", "w">>, <<"\\", "w", "*">>, <<"\\", "*">>, <<"\\", "q", "1">>,
      <<" ">>, <<"a">>, <<"1">>, <<"\n">>, <<"\r", "\n">> }

TokInputs == { Flatten(b) : b \in UNION { [1..n -> Pieces] : n \in 0..MaxPieces } }

TokNext ==
    \/ pc = "idle" /\ \E t \in TokInputs : ParseCall(t)
    \/ TokenizeMarker
    \/ TokenizeRemaining
    \/ TokenizeLineEnd
    \/ TokenizeReturn

TokSpec == Init /\ [][TokNext]_vars

\* tokenize has returned
Tokenized == pc = "drive"

\* where the data of the marker token tok starts in its line: after the
\* backslash, the marker and the white space that follows it
DataStart(tok) ==
    SpaceEnd(lines[tok.line_number], tok.column_number + 1 + Len(tok.marker))

\* C12: the data of a Book, Chapter or Verse token is the run of characters
\* that are not white space after the marker, and no token that follows it
\* in the line starts before the end of that run: the characters of data
\* are in no later Text token
C12_DataConsumed ==
    \A k \in 1..Len(tokens) :
        tokens[k].data # None =>
            /\ tokens[k].type \in {"BOOK", "CHAPTER", "VERSE"}
            /\ tokens[k].data =
                  Slice(lines[tokens[k].line_number], DataStart(tokens[k]),
                        NonSpaceEnd(lines[tokens[k].line_number], DataStart(tokens[k])))
            /\ \A j \in (k + 1)..Len(tokens) :
                  tokens[j].line_number = tokens[k].line_number =>
                      tokens[j].column_number >= DataStart(tokens[k]) + Len(tokens[k].data)

-----------------------------------------------------------------------------
(* parse on texts with markers of every kind: a verse with a word is open, *)
(* then come up to MaxMarks fragments                                      *)

MaxMarks == 3

MarkFragments ==
    { <<"\\", "i", "d">>, <<"\\", "c">>, <<"\\", "v">>, <<"\\", "p">>, <<"\\", "w">>,
      <<"\\", "w", "*">>, <<" ", "a">>, <<"\n">>, <<"\t">> }

\* \id GEN \c 1 \v 1 a, then the fragments
MarkInputs ==
    { SpacedHeader \o <<" ", "a">> \o Flatten(b) :
        b \in UNION { [1..n -> MarkFragments] : n \in 0..MaxMarks } }

MarkNext ==
    \/ pc = "idle" /\ \E t \in MarkInputs : ParseCall(t)
    \/ TokenizeMarker
    \/ TokenizeRemaining
    \/ TokenizeLineEnd
    \/ TokenizeReturn
    \/ DriveBook
    \/ DriveChapter
    \/ DriveVerse
    \/ DriveText
    \/ DriveOther
    \/ LastVerse
    \/ CleanAndReturn

MarkSpec == Init /\ [][MarkNext]_vars

AllSet == current_book # <<>> /\ current_chapter # <<>> /\ current_verse # <<>>

\* C13: the stack is empty before and after every step of parse, is_verse_text
\* holds at every token, and a Text token met while book, chapter and verse
\* are set makes the buffer longer: by its text, or right after a Verse
\* token by what the echo suppression leaves of it
C13_StackEmpty ==
    [][ /\ stack = <<>> /\ stack' = <<>>
        /\ InLoop => is_verse_text(stack, tags)
        /\ (InLoop /\ tokens[Cursor].type = "TEXT" /\ AllSet) =>
              /\ Len(current_verse_text') > Len(current_verse_text)
              /\ StartsWith(current_verse_text', current_verse_text)
              /\ (Cursor = 1 \/ tokens[Cursor - 1].type # "VERSE") =>
                    current_verse_text' = current_verse_text \o tokens[Cursor].text ]_vars

\* a parse has returned in which a word between a Character token and an
\* End token went into the verse
C13_Witness ==
    /\ Returned
    /\ stack = <<>>
    /\ \E i, j, k \in 1..Len(tokens) :
          /\ i < j /\ j < k
          /\ tokens[i].type = "CHARACTER"
          /\ tokens[j].type = "TEXT" /\ HasWord(tokens[j].text)
          /\ tokens[k].type = "END"
    /\ GEN_1_1 \in DOMAIN verses
    /\ verses[GEN_1_1] = <<"a", " ", "a">>

\* the data of the last Book token with data before the cursor
LatestBook ==
    tokens[Last({ j \in 1..(Cursor - 1) : tokens[j].type = "BOOK" /\ tokens[j].data # None })].data

\* C14: a Book token with data sets the current book to its data and leaves
\* chapter, verse, buffer and map as they are; Paragraph, Character and End
\* tokens, and Book, Chapter and Verse tokens without data, leave all five
\* as they are; and a verse that is stored is stored under the key made of
\* the data of the last Book token, with its whole buffer
C14_BookFrame ==
    [][ /\ (InLoop /\ tokens[Cursor].type = "BOOK" /\ tokens[Cursor].data # None) =>
              /\ current_book' = tokens[Cursor].data
              /\ UNCHANGED <<current_chapter, current_verse, current_verse_text, verses>>
        /\ ( /\ InLoop
             /\ \/ tokens[Cursor].type \in {"PARAGRAPH", "CHARACTER", "END"}
                \/ /\ tokens[Cursor].type \in {"BOOK", "CHAPTER", "VERSE"}
                   /\ tokens[Cursor].data = None ) =>
              UNCHANGED <<current_book, current_chapter, current_verse, current_verse_text,
                          verses>>
        /\ (pc = "drive" /\ verses' # verses) =>
              verses' = Put(verses, VerseKey(LatestBook, current_chapter, current_verse),
                            Strip(current_verse_text)) ]_vars

\* a parse has returned in which a Book token with data came while verse 1:1
\* was open: the verse is in the map under the new book, with the words from
\* before and after the Book token, and not under GEN
C14_Witness ==
    /\ Returned
    /\ \E j, k \in 1..Len(tokens) :
          /\ j < k
          /\ tokens[j].type = "VERSE" /\ tokens[j].data = <<"1">>
          /\ tokens[k].type = "BOOK" /\ tokens[k].data = <<"a">>
    /\ GEN_1_1 \notin DOMAIN verses
    /\ <<"a", " ", "1", ":", "1">> \in DOMAIN verses
    /\ verses[<<"a", " ", "1", ":", "1">>] = <<"a", " ", "a">>

-----------------------------------------------------------------------------
\* the kind of a marker by the rules in their order: the first that applies
KindOf(marker) ==
    LET rules == << <<marker = <<"*">>, "END">>,
                    <<marker = <<"i", "d">>, "BOOK">>,
                    <<marker = <<"c">>, "CHAPTER">>,
                    <<marker = <<"v">>, "VERSE">>,
                    <<Head(marker) \in {"q", "p", "m"}, "PARAGRAPH">>,
                    <<marker[Len(marker)] = "*", "END">>,
                    <<TRUE, "CHARACTER">> >>
        first == CHOOSE r \in 1..Len(rules) : rules[r][1] /\ \A q \in 1..(r - 1) : ~rules[q][1]
    IN  rules[first][2]

\* a backslash at offset k of line starts a marker: the characters after it
\* up to white space, a backslash or the end are followed by white space or
\* the end, or the backslash is followed by a star
StartsMarker(line, k) ==
    /\ At(line, k) = "\\"
    /\ \/ RunEnd(line, k + 1) > k + 1
          /\ (RunEnd(line, k + 1) = Len(line) \/ IsSpace(At(line, RunEnd(line, k + 1))))
       \/ k + 1 < Len(line) /\ At(line, k + 1) = "*"

\* C15: every token is a Text token or has a marker and the kind that the
\* precedence gives its marker, so no token has the kind Unknown, Note,
\* Milestone or MilestoneEnd; and every marker of the text has its token, at
\* its line and column
C15_Classification ==
    /\ \A k \in 1..Len(tokens) :
          \/ tokens[k].type = "TEXT" /\ tokens[k].marker = None
          \/ /\ tokens[k].marker # None
             /\ tokens[k].type = KindOf(tokens[k].marker)
             /\ tokens[k].type \in {"BOOK", "CHAPTER", "VERSE", "PARAGRAPH", "END", "CHARACTER"}
    /\ Tokenized =>
          \A n \in 1..Len(lines) : \A c \in 0..(Len(lines[n]) - 1) :
              StartsMarker(lines[n], c) <=>
                  \E k \in 1..Len(tokens) :
                      /\ tokens[k].type # "TEXT"
                      /\ tokens[k].line_number = n /\ tokens[k].column_number = c

\* tokenize has returned a Paragraph token whose marker ends with a star
\* and an End token
C15_Witness ==
    /\ Tokenized
    /\ \E k \in 1..Len(tokens) : tokens[k].type = "PARAGRAPH" /\ tokens[k].marker = <<"p", "*">>
    /\ \E k \in 1..Len(tokens) : tokens[k].type = "END"

-----------------------------------------------------------------------------
(* UsfmParserState on its own: elements are pushed and popped and the two  *)
(* properties are read, under stylesheets whose tags for p and w have a    *)
(* text type                                                               *)

MaxDepth == 3

\* text types: not specified, VERSE_TEXT, VERSE_TEXT | SECTION, NOTE_TEXT
TextTypes == { {}, {"VERSE_TEXT"}, {"VERSE_TEXT", "SECTION"}, {"NOTE_TEXT"} }

StyleSheets ==
    { (<<"p">> :> [NewTag(<<"p">>) EXCEPT !.text_type = a])
      @@ (<<"w">> :> [NewTag(<<"w">>) EXCEPT !.text_type = b])
      @@ DefaultTags : a \in TextTypes, b \in TextTypes }

UsfmParserElement(type, marker) == [type |-> type, marker |-> marker]

\* the elements pushed: the marker q has no tag yet; an element of a
\* paragraph type has a marker, as para_tag asserts
Elements ==
    { UsfmParserElement("PARA", <<"p">>), UsfmParserElement("PARA", <<"q">>),
      UsfmParserElement("BOOK", <<"i", "d">>), UsfmParserElement("ROW", <<"p">>),
      UsfmParserElement("SIDEBAR", <<"p">>), UsfmParserElement("CHAR", <<"w">>),
      UsfmParserElement("CHAR", <<"q">>), UsfmParserElement("CHAR", None),
      UsfmParserElement("NOTE", <<"w">>), UsfmParserElement("CELL", None) }

StateInit ==
    /\ \E tgs \in StyleSheets : ParserInit(tgs)
    /\ file_paths = <<>>
    /\ file_number = 0
    /\ all_verses = EmptyDict
    /\ earlier = <<>>

\* a pop that takes the element at the bottom: _stack.pop(0)
PoppedFirst(stk) == [elem |-> stk[1], stack |-> SubSeq(stk, 2, Len(stk))]

\* _stack after _stack.append(elem)
Pushed(stk, elem) == Append(stk, elem)

\* the element _stack.pop() returns and _stack after it, for a stack that is
\* not empty (on an empty one pop raises IndexError)
Popped(stk) == [elem |-> stk[Len(stk)], stack |-> SubSeq(stk, 1, Len(stk) - 1)]

\* push(elem)
push(elem) ==
    /\ Len(stack) < MaxDepth
    /\ stack' = Pushed(stack, elem)
    /\ UNCHANGED <<text, pc, lines, line_number, pos, tokens, index, locals, tags, main_locals, earlier>>

\* pop()
pop ==
    /\ stack # <<>>
    /\ stack' = Popped(stack).stack
    /\ UNCHANGED <<text, pc, lines, line_number, pos, tokens, index, locals, tags, main_locals, earlier>>

\* _tags after para_tag is read
TagsAfterParaTag(stk, tgs) ==
    IF \A k \in 1..Len(stk) : stk[k].type \notin ParaTypes THEN tgs
    ELSE LET k == CHOOSE j \in 1..Len(stk) :
                      /\ stk[j].type \in ParaTypes
                      /\ \A h \in (j + 1)..Len(stk) : stk[h].type \notin ParaTypes
         IN  TagsAfterGet(tgs, stk[k].marker)

\* _tags after the loop over char_tags has come down to stk[k]: the
\* generator gets the tags from the innermost element on, and the loop stops
\* at the first tag that is not verse text
RECURSIVE TagsAfterCharTags(_, _, _)
TagsAfterCharTags(stk, k, tgs) ==
    IF k = 0 THEN tgs
    ELSE IF stk[k].type = "CHAR" /\ stk[k].marker # None
    THEN LET got == TagsAfterGet(tgs, stk[k].marker)
         IN  IF got[stk[k].marker].text_type \in {{"VERSE_TEXT"}, {}}
             THEN TagsAfterCharTags(stk, k - 1, got)
             ELSE got
    ELSE TagsAfterCharTags(stk, k - 1, tgs)

\* _tags after is_verse_text is read
TagsAfterVerseText(stk, tgs) ==
    IF \E k \in 1..Len(stk) : stk[k].type \in {"SIDEBAR", "NOTE"} THEN tgs
    ELSE IF ~is_verse_para(stk, tgs) THEN TagsAfterParaTag(stk, tgs)
    ELSE TagsAfterCharTags(stk, Len(stk), TagsAfterParaTag(stk, tgs))

\* is_verse_para is read
ReadVersePara ==
    /\ tags' = TagsAfterParaTag(stack, tags)
    /\ UNCHANGED <<text, pc, lines, line_number, pos, tokens, index, locals, stack, main_locals, earlier>>

\* is_verse_text is read
ReadVerseText ==
    /\ tags' = TagsAfterVerseText(stack, tags)
    /\ UNCHANGED <<text, pc, lines, line_number, pos, tokens, index, locals, stack, main_locals, earlier>>

StateNext ==
    \/ \E elem \in Elements : push(elem)
    \/ pop
    \/ ReadVersePara
    \/ ReadVerseText

StateSpec == StateInit /\ [][StateNext]_vars

\* the text type of the tag of the marker, not specified for a marker that
\* has no tag yet
FlagsOf(marker) == IF marker \in DOMAIN tags THEN tags[marker].text_type ELSE {}

\* the places of the paragraph-like frames: Para, Book, Row, Sidebar
ParaFrames == { k \in 1..Len(stack) : stack[k].type \in {"PARA", "BOOK", "ROW", "SIDEBAR"} }

\* C16: is_verse_para is true exactly when there is no paragraph-like frame,
\* or the flags of the tag of the nearest one include VERSE_TEXT, alone or
\* with other flags, or are empty
C16_VersePara ==
    is_verse_para(stack, tags) <=>
        \/ ParaFrames = {}
        \/ "VERSE_TEXT" \in FlagsOf(stack[Last(ParaFrames)].marker)
        \/ FlagsOf(stack[Last(ParaFrames)].marker) = {}

\* C17: is_verse_text is false if a frame at any depth is a Sidebar or a
\* Note, else false if is_verse_para is false, else false if the flags of the
\* tag of some Char frame are not empty and do not include VERSE_TEXT, and
\* else true: flags that include VERSE_TEXT with other flags do not make it
\* false
C17_VerseText ==
    is_verse_text(stack, tags) <=>
        /\ \A k \in 1..Len(stack) : stack[k].type \notin {"SIDEBAR", "NOTE"}
        /\ is_verse_para(stack, tags)
        /\ \A k \in 1..Len(stack) :
              (stack[k].type = "CHAR" /\ stack[k].marker # None) =>
                  \/ FlagsOf(stack[k].marker) = {}
                  \/ "VERSE_TEXT" \in FlagsOf(stack[k].marker)

-----------------------------------------------------------------------------
\* v has no white space at its ends, no white space but the space, and no
\* two spaces in a row
Normalized(v) ==
    /\ v # <<>> => ~IsSpace(v[1]) /\ ~IsSpace(v[Len(v)])
    /\ \A i \in 1..Len(v) : IsSpace(v[i]) => v[i] = " "
    /\ \A i \in 1..(Len(v) - 1) : ~(v[i] = " " /\ v[i + 1] = " ")

\* C18: every value of the map that parse returns is whitespace-normalized
C18_ValuesNormalized == Returned => \A k \in DOMAIN verses : Normalized(verses[k])

\* the map as it is before the values are cleaned up
RawVerses == SaveVerse(LoopFrom(InitialLocals, tokens, 0, stack, tags)).verses

\* a parse has returned a value that had a tab and two white-space
\* characters in a row before it was cleaned up
C18_Witness ==
    /\ Returned
    /\ \E k \in DOMAIN verses :
          /\ \E i \in 1..(Len(RawVerses[k]) - 1) :
                RawVerses[k][i] = "\t" /\ IsSpace(RawVerses[k][i + 1])
          /\ verses[k] = <<"a", " ", "a">>

-----------------------------------------------------------------------------
\* the places of the line feeds of t
LineFeeds(t) == { p \in 1..Len(t) : t[p] = "\n" }

\* the place of the n-th line feed of t; Len(t) + 1 when t has fewer
LineFeed(t, n) ==
    IF n >= 1 /\ n <= Cardinality(LineFeeds(t))
    THEN CHOOSE p \in LineFeeds(t) : Cardinality({ q \in LineFeeds(t) : q < p }) = n - 1
    ELSE IF n = 0 THEN 0 ELSE Len(t) + 1

\* the length of the n-th line of t: what is between the line feeds, less
\* the carriage return of a CRLF
LineLength(t, n) ==
    LET first == LineFeed(t, n - 1) + 1
        last == LineFeed(t, n) - 1
    IN  IF last >= first /\ last < Len(t) /\ t[last] = "\r"
        THEN last - first ELSE last - first + 1

\* C19: when tokenize returns, every line of the text (the lines being what
\* the line feeds, with or without a carriage return before them, separate;
\* empty lines too) has tokens, the last of them a Text token of one newline
\* with the number of the line and the length of the line as column; the
\* tokens come in the order of the lines and there are as many newline
\* tokens as lines
C19_LineEnds ==
    Tokenized =>
        LET n == Cardinality(LineFeeds(text)) + 1
        IN  /\ \A i \in 1..n :
                  LET S == { k \in 1..Len(tokens) : tokens[k].line_number = i }
                  IN  /\ S # {}
                      /\ tokens[Last(S)].type = "TEXT"
                      /\ tokens[Last(S)].text = <<"\n">>
                      /\ tokens[Last(S)].column_number = LineLength(text, i)
            /\ \A k \in 1..Len(tokens) : tokens[k].line_number \in 1..n
            /\ \A j, k \in 1..Len(tokens) : j < k => tokens[j].line_number <= tokens[k].line_number
            /\ Cardinality({ k \in 1..Len(tokens) :
                               tokens[k].type = "TEXT" /\ tokens[k].text = <<"\n">> }) = n

\* tokenize has returned on a text of three lines, one of them ended by
\* CRLF: the first starts with a marker, the second is empty
C19_Witness ==
    /\ Tokenized
    /\ Cardinality(LineFeeds(text)) = 2
    /\ \E p \in 1..Len(text) : text[p] = "\r"
    /\ LineLength(text, 1) > 0 /\ LineLength(text, 2) = 0
    /\ tokens[1].type # "TEXT"
    /\ Len(tokens) = 4

-----------------------------------------------------------------------------
(* parse called again and again on one parser                              *)

MaxCalls == 2

\* the call has ended, by a return or by the exception: the parser can be
\* called again
ParseEnds ==
    /\ Ended
    /\ Len(earlier) < MaxCalls
    /\ earlier' = Append(earlier, text)
    /\ pc' = "idle"
    /\ UNCHANGED <<text, lines, line_number, pos, tokens, index, locals, stack, tags,
                   main_locals>>

SessionNext ==
    \/ pc = "idle" /\ \E t \in FileTexts : ParseCall(t)
    \/ TokenizeMarker
    \/ TokenizeRemaining
    \/ TokenizeLineEnd
    \/ TokenizeReturn
    \/ DriveBook
    \/ DriveChapter
    \/ DriveVerse
    \/ DriveText
    \/ DriveOther
    \/ LastVerse
    \/ CleanAndReturn
    \/ ParseEnds

SessionSpec == Init /\ [][SessionNext]_vars

\* C20: whatever calls were made before on the parser, parse(text) ends as
\* it does on a new parser; when its loop starts, the map, the buffer and
\* the book, chapter and verse hold nothing of an earlier call and the stack
\* is empty; and the stylesheet is as it was made
C20_Independent ==
    /\ Ended => Outcome = ParseResult(text, <<>>, DefaultTags)
    /\ (pc = "drive" /\ index = -1) =>
          /\ verses = EmptyDict /\ current_verse_text = <<>>
          /\ current_book = <<>> /\ current_chapter = <<>> /\ current_verse = <<>>
          /\ stack = <<>>
    /\ pc = "drive" => \A k \in 1..Len(tokens) : tokens[k].line_number <= Len(lines)
    /\ tags = DefaultTags

\* parse has returned a verse after two earlier calls on the same parser:
\* one that raised and one that returned another text for the same verse
\* and a second verse
C20_Witness ==
    /\ Returned
    /\ Len(earlier) = 2
    /\ ParseResult(earlier[1], <<>>, DefaultTags).raised
    /\ earlier[2] = TwoVerses
    /\ verses = (GEN_1_1 :> <<"b">>)

-----------------------------------------------------------------------------
(* the stylesheet and the parser state as the program makes them: tags are *)
(* looked up, elements are pushed and popped, the properties are read      *)

\* the markers looked up: id, c and v have their tags, the others have none
\* at first
Markers == { <<"i", "d">>, <<"c">>, <<"v">>, <<"p">>, <<"x">> }

\* the elements pushed: a paragraph, a book, a character style with and
\* without a marker, a note
ApiElements ==
    { UsfmParserElement("PARA", <<"p">>), UsfmParserElement("PARA", <<"q">>),
      UsfmParserElement("BOOK", <<"i", "d">>), UsfmParserElement("CHAR", <<"w">>),
      UsfmParserElement("CHAR", None), UsfmParserElement("NOTE", <<"w">>) }

\* get_tag(marker)
LookUp(marker) ==
    /\ tags' = TagsAfterGet(tags, marker)
    /\ UNCHANGED <<text, pc, lines, line_number, pos, tokens, index, locals, stack, main_locals,
                   earlier>>

ApiNext ==
    \/ \E marker \in Markers : LookUp(marker)
    \/ \E elem \in ApiElements : push(elem)
    \/ pop
    \/ ReadVersePara
    \/ ReadVerseText

ApiSpec == Init /\ [][ApiNext]_vars

\* the markers a lookup may be made for
AnyMarker == Markers \cup { e.marker : e \in { x \in ApiElements : x.marker # None } }

\* C21: at every registry the program reaches, get_tag of any marker gives a
\* tag; for a marker without an entry the lookup adds one entry, the tag
\* given, with style type Unknown and text property Publishable, and for a
\* marker with an entry it changes nothing and gives the entry; a lookup
\* made again gives the same tag; no step removes or changes an entry; and
\* id, c and v are there with Book, Chapter and Verse
C21_GetTagMemoizes ==
    [][ /\ \A m \in AnyMarker :
              LET after == TagsAfterGet(tags, m)
              IN  /\ m \in DOMAIN after
                  /\ get_tag(tags, m) = after[m]
                  /\ get_tag(after, m) = get_tag(tags, m)
                  /\ TagsAfterGet(after, m) = after
                  /\ m \in DOMAIN tags => after = tags
                  /\ m \notin DOMAIN tags =>
                        /\ DOMAIN after = DOMAIN tags \cup {m}
                        /\ \A k \in DOMAIN tags : after[k] = tags[k]
                        /\ after[m].style_type = "UNKNOWN"
                        /\ after[m].text_properties = {"PUBLISHABLE"}
        /\ DOMAIN tags \subseteq DOMAIN tags'
        /\ \A k \in DOMAIN tags : tags'[k] = tags[k]
        /\ {<<"i", "d">>, <<"c">>, <<"v">>} \subseteq DOMAIN tags'
        /\ tags'[<<"i", "d">>].text_properties = {"BOOK"}
        /\ tags'[<<"c">>].text_properties = {"CHAPTER"}
        /\ tags'[<<"v">>].text_properties = {"VERSE"} ]_vars

\* markers that had no tag have been looked up, directly and by the
\* properties of a stack that is not empty, and have their entries beside
\* those of id, c and v
C21_Witness ==
    /\ {<<"x">>, <<"q">>, <<"i", "d">>, <<"c">>, <<"v">>} \subseteq DOMAIN tags
    /\ tags[<<"x">>] = NewTag(<<"x">>)
    /\ tags[<<"q">>].text_properties = {"PUBLISHABLE"}
    /\ stack # <<>>

\* the stack without its last element
Front(stk) == SubSeq(stk, 1, Len(stk) - 1)

\* C22: at every stack the program reaches, pop after pushes gives the
\* elements back in the reverse order of the pushes and leaves the frames
\* below as they were, in their order; a step that shortens the stack takes
\* away its last element only, a step that lengthens it adds one element at
\* the end, and every other step, the reads of para_tag, char_tags,
\* is_verse_para and is_verse_text among them, leaves the stack as it is
C22_Lifo ==
    [][ /\ stack # <<>> =>
              /\ Popped(stack).elem = stack[Len(stack)]
              /\ Popped(stack).stack = Front(stack)
        /\ \A e1, e2 \in ApiElements :
              LET one == Pushed(stack, e1)
                  two == Pushed(one, e2)
              IN  /\ Popped(one) = [elem |-> e1, stack |-> stack]
                  /\ Popped(two) = [elem |-> e2, stack |-> one]
                  /\ Popped(Popped(two).stack) = [elem |-> e1, stack |-> stack]
        /\ Len(stack') < Len(stack) => stack' = Front(stack)
        /\ Len(stack') > Len(stack) => /\ Front(stack') = stack
                                       /\ stack'[Len(stack')] \in ApiElements
        /\ Len(stack') = Len(stack) => stack' = stack
        /\ tags' # tags => stack' = stack ]_vars

\* a frame with marker q was pushed, read (its tag is in the registry, which
\* only a read with q on the stack puts there) and popped: it is not on the
\* stack, which holds two other frames
C22_Witness ==
    /\ <<"q">> \in DOMAIN tags
    /\ \A k \in 1..Len(stack) : stack[k].marker # <<"q">>
    /\ Len(stack) = 2
    /\ stack[1] # stack[2]

-----------------------------------------------------------------------------
(* the canon: references are made from book ids and from book numbers *)

\* the ids given: every id of the canon, one in lower case, one that is not
\* in the canon, the empty one
BookIds ==
    { ALL_BOOK_ID_CHARS[n] : n \in 1..Len(ALL_BOOK_ID_CHARS) }
        \cup { <<"g", "e", "n">>, <<"X", "Y", "Z">>, <<>> }

\* the numbers given: every number of a book, the one below and the one above
BookNumbers == (FIRST_BOOK - 1)..(LAST_BOOK + 1)

\* verse_ref = VerseRef(book, "1", verse) with the id of a book
NewVerseRef(book, verse) ==
    /\ verse_ref' = VerseRef(book, <<"1">>, verse)
    /\ UNCHANGED <<text, pc, lines, line_number, pos, tokens, index, verses, current_book,
                   current_chapter, current_verse, current_verse_text, stack, tags,
                   main_locals, earlier>>

\* verse_ref = VerseRef(book, "1", verse) with the number of a book
NewVerseRefOfNumber(book, verse) ==
    /\ verse_ref' = VerseRefOfNumber(book, <<"1">>, verse)
    /\ UNCHANGED <<text, pc, lines, line_number, pos, tokens, index, verses, current_book,
                   current_chapter, current_verse, current_verse_text, stack, tags,
                   main_locals, earlier>>

CanonNext ==
    \/ \E book \in BookIds : NewVerseRef(book, <<"1">>)
    \/ \E book \in BookNumbers : NewVerseRefOfNumber(book, <<"2">>)

CanonSpec == Init /\ [][CanonNext]_vars

\* C23: for the book of every reference made whose number is from FIRST_BOOK
\* to LAST_BOOK, the number of the book's id is looked up back to that id,
\* the id of the number is not the error value, and the id of the number is
\* looked up back to that number
C23_Bijection ==
    LET number == verse_ref.book_num
    IN  number \in FIRST_BOOK..LAST_BOOK =>
            LET code == ALL_BOOK_ID_CHARS[number]
            IN  /\ book_number_to_id(book_id_to_number(code), DefaultErrorValue) = code
                /\ book_number_to_id(number, DefaultErrorValue) # DefaultErrorValue
                /\ book_id_to_number(book_number_to_id(number, DefaultErrorValue)) = number

=============================================================================
